---- MODULE Spec2Model ----
(***************************************************************************)
(* Model of the aggregated search endpoint of the Torrent Streamer API     *)
(* (src/main.py): the two static providers, the provider registry and the  *)
(* search handler (provider selection, concatenation, de-duplication by    *)
(* btih, demo fallback).  Python strings are sequences of one-character    *)
(* strings, so that split, strip, lower and the substring test are         *)
(* computed the way the code computes them.                                *)
(***************************************************************************)
EXTENDS Integers, Sequences, FiniteSets, TLC

VARIABLES
  pc,        \* "request": a request is waiting; "done": the handler returned
  q,         \* the q parameter of the request
  sources,   \* the sources parameter: None or Some(string)
  keys,      \* the provider keys the caller joined with ',' to build sources
  faulty,    \* the registered providers whose call raises in this request
  selected,  \* search: the list `selected`
  results,   \* search: the list `results` after the provider loop
  unique,    \* search: the list `unique` after the de-duplication loop
  response,  \* the list returned to the caller
  raised     \* TRUE when the handler ended with an exception instead

vars == <<pc, q, sources, keys, faulty, selected, results, unique, response, raised>>

\* Bounds of the explored inputs
MaxKeys == 3
MaxQLen == 2

----------------------------------------------------------------------------
\* Optional[str]
None == <<>>

Some(s) == <<s>>

\* String literals of the source
DEMO == <<"d","e","m","o">>

LINUX == <<"l","i","n","u","x">>

COMMA == <<",">>

AMP == <<"&">>

MAGNET_PREFIX == <<"m","a","g","n","e","t",":">>

BTIH == <<"b","t","i","h">>

BTIH_COLON == <<"b","t","i","h",":">>

----------------------------------------------------------------------------
\* str.lower() on ASCII text
UpperCase == <<"A","B","C","D","E","F","G","H","I","J","K","L","M",
               "N","O","P","Q","R","S","T","U","V","W","X","Y","Z">>

LowerCase == <<"a","b","c","d","e","f","g","h","i","j","k","l","m",
               "n","o","p","q","r","s","t","u","v","w","x","y","z">>

LowerChar(c) ==
  IF \E i \in 1..26 : UpperCase[i] = c
  THEN LowerCase[CHOOSE i \in 1..26 : UpperCase[i] = c]
  ELSE c

lower(s) == [i \in 1..Len(s) |-> LowerChar(s[i])]

\* the `in` operator on strings: sub in s
contains(s, sub) ==
  \E i \in 0..(Len(s) - Len(sub)) : SubSeq(s, i + 1, i + Len(sub)) = sub

\* index (0-based) of the first occurrence of sep in s, or -1: str.find
find(s, sep) ==
  LET hits == {i \in 0..(Len(s) - Len(sep)) : SubSeq(s, i + 1, i + Len(sep)) = sep}
  IN  IF hits = {} THEN -1
      ELSE CHOOSE i \in hits : \A j \in hits : i <= j

\* str.split(sep) for a non-empty separator
RECURSIVE split(_, _)
split(s, sep) ==
  LET i == find(s, sep) IN
  IF i = -1 THEN <<s>>
  ELSE <<SubSeq(s, 1, i)>> \o split(SubSeq(s, i + Len(sep) + 1, Len(s)), sep)

\* str.strip(): removes leading and trailing whitespace
Whitespace == {" ", "\t", "\n", "\r", "\f"}

RECURSIVE lstrip(_)
lstrip(s) ==
  IF s # <<>> /\ Head(s) \in Whitespace THEN lstrip(Tail(s)) ELSE s

RECURSIVE rstrip(_)
rstrip(s) ==
  IF s # <<>> /\ s[Len(s)] \in Whitespace THEN rstrip(SubSeq(s, 1, Len(s) - 1)) ELSE s


\* variant that strips leading whitespace only
strip_leading_only(s) == lstrip(s)

strip(s) == rstrip(lstrip(s))

\* str.join
RECURSIVE join(_, _)
join(sep, parts) ==
  IF parts = <<>> THEN <<>>
  ELSE IF Len(parts) = 1 THEN parts[1]
  ELSE parts[1] \o sep \o join(sep, Tail(parts))

----------------------------------------------------------------------------
\* The SearchItem literals of the two providers
BigBuckBunny ==
  [title  |-> <<"B","i","g"," ","B","u","c","k"," ","B","u","n","n","y"," ","7","2","0",
               "p"," ","(","W","e","b","T","o","r","r","e","n","t"," ","d","e","m","o",
               ")">>,
   magnet |-> <<"m","a","g","n","e","t",":","?","x","t","=","u","r","n",":","b","t","i",
               "h",":","0","8","a","d","a","5","a","7","a","6","1","8","3","a","a","e",
               "1","e","0","9","d","8","3","1","d","f","6","7","4","8","d","5","6","6",
               "0","9","5","a","1","0","&","d","n","=","B","i","g","+","B","u","c","k",
               "+","B","u","n","n","y","+","%","5","B","2","0","0","8","%","5","D","+",
               "7","2","0","p","&","t","r","=","u","d","p","%","3","A","%","2","F","%",
               "2","F","t","r","a","c","k","e","r",".","o","p","e","n","b","i","t","t",
               "o","r","r","e","n","t",".","c","o","m","%","3","A","8","0","&","t","r",
               "=","u","d","p","%","3","A","%","2","F","%","2","F","t","r","a","c","k",
               "e","r",".","o","p","e","n","t","r","a","c","k","r",".","o","r","g","%",
               "3","A","1","3","3","7","%","2","F","a","n","n","o","u","n","c","e","&",
               "t","r","=","w","s","s","%","3","A","%","2","F","%","2","F","t","r","a",
               "c","k","e","r",".","o","p","e","n","w","e","b","t","o","r","r","e","n",
               "t",".","c","o","m","&","t","r","=","w","s","s","%","3","A","%","2","F",
               "%","2","F","t","r","a","c","k","e","r",".","b","t","o","r","r","e","n",
               "t",".","x","y","z","&","t","r","=","w","s","s","%","3","A","%","2","F",
               "%","2","F","t","r","a","c","k","e","r",".","f","a","s","t","c","a","s",
               "t",".","n","z">>,
   size |-> <<"7","0","0","M","B">>, seeds |-> 500, peers |-> 200, source |-> <<"d","e","m","o">>]

Sintel ==
  [title  |-> <<"S","i","n","t","e","l"," ","7","2","0","p"," ","(","W","e","b","T","o",
               "r","r","e","n","t"," ","d","e","m","o",")">>,
   magnet |-> <<"m","a","g","n","e","t",":","?","x","t","=","u","r","n",":","b","t","i",
               "h",":","3","7","d","6","f","9","3","9","3","b","d","3","9","f","2","f",
               "9","d","0","7","c","9","f","0","e","2","b","4","f","0","d","e","7","b",
               "0","e","d","2","f","5","&","d","n","=","S","i","n","t","e","l","+","%",
               "5","B","2","0","1","0","%","5","D","+","7","2","0","p","&","t","r","=",
               "u","d","p","%","3","A","%","2","F","%","2","F","t","r","a","c","k","e",
               "r",".","o","p","e","n","t","r","a","c","k","r",".","o","r","g","%","3",
               "A","1","3","3","7","%","2","F","a","n","n","o","u","n","c","e","&","t",
               "r","=","w","s","s","%","3","A","%","2","F","%","2","F","t","r","a","c",
               "k","e","r",".","o","p","e","n","w","e","b","t","o","r","r","e","n","t",
               ".","c","o","m","&","t","r","=","w","s","s","%","3","A","%","2","F","%",
               "2","F","t","r","a","c","k","e","r",".","b","t","o","r","r","e","n","t",
               ".","x","y","z","&","t","r","=","w","s","s","%","3","A","%","2","F","%",
               "2","F","t","r","a","c","k","e","r",".","f","a","s","t","c","a","s","t",
               ".","n","z">>,
   size |-> <<"6","0","0","M","B">>, seeds |-> 200, peers |-> 80, source |-> <<"d","e","m","o">>]

TearsOfSteel ==
  [title  |-> <<"T","e","a","r","s"," ","o","f"," ","S","t","e","e","l"," ","7","2","0",
               "p"," ","(","W","e","b","T","o","r","r","e","n","t"," ","d","e","m","o",
               ")">>,
   magnet |-> <<"m","a","g","n","e","t",":","?","x","t","=","u","r","n",":","b","t","i",
               "h",":","4","a","5","e","1","e","4","b","5","b","8","1","6","d","0","5",
               "f","4","a","8","f","2","b","5","7","5","6","f","a","0","f","e","5","8",
               "f","3","d","c","b","5","&","d","n","=","T","e","a","r","s","+","o","f",
               "+","S","t","e","e","l","+","%","5","B","2","0","1","2","%","5","D","+",
               "7","2","0","p","&","t","r","=","u","d","p","%","3","A","%","2","F","%",
               "2","F","t","r","a","c","k","e","r",".","o","p","e","n","t","r","a","c",
               "k","r",".","o","r","g","%","3","A","1","3","3","7","%","2","F","a","n",
               "n","o","u","n","c","e","&","t","r","=","w","s","s","%","3","A","%","2",
               "F","%","2","F","t","r","a","c","k","e","r",".","o","p","e","n","w","e",
               "b","t","o","r","r","e","n","t",".","c","o","m","&","t","r","=","w","s",
               "s","%","3","A","%","2","F","%","2","F","t","r","a","c","k","e","r",".",
               "b","t","o","r","r","e","n","t",".","x","y","z","&","t","r","=","w","s",
               "s","%","3","A","%","2","F","%","2","F","t","r","a","c","k","e","r",".",
               "f","a","s","t","c","a","s","t",".","n","z">>,
   size |-> <<"9","0","0","M","B">>, seeds |-> 120, peers |-> 60, source |-> <<"d","e","m","o">>]

Ubuntu ==
  [title  |-> <<"U","b","u","n","t","u"," ","2","2",".","0","4",".","4"," ","L","T","S",
               " ","D","e","s","k","t","o","p"," ","a","m","d","6","4">>,
   magnet |-> <<"m","a","g","n","e","t",":","?","x","t","=","u","r","n",":","b","t","i",
               "h",":","9","b","9","f","0","b","3","d","6","a","1","c","9","b","0","b",
               "2","f","0","f","5","f","7","a","6","c","3","f","b","7","a","6","f","7",
               "c","5","c","5","b","0","&","d","n","=","u","b","u","n","t","u","-","2",
               "2",".","0","4",".","4","-","d","e","s","k","t","o","p","-","a","m","d",
               "6","4",".","i","s","o","&","t","r","=","u","d","p","%","3","A","%","2",
               "F","%","2","F","t","r","a","c","k","e","r",".","o","p","e","n","t","r",
               "a","c","k","r",".","o","r","g","%","3","A","1","3","3","7","%","2","F",
               "a","n","n","o","u","n","c","e","&","t","r","=","u","d","p","%","3","A",
               "%","2","F","%","2","F","t","r","a","c","k","e","r",".","o","p","e","n",
               "b","i","t","t","o","r","r","e","n","t",".","c","o","m","%","3","A","8",
               "0","&","t","r","=","w","s","s","%","3","A","%","2","F","%","2","F","t",
               "r","a","c","k","e","r",".","o","p","e","n","w","e","b","t","o","r","r",
               "e","n","t",".","c","o","m">>,
   size |-> <<"3",".","8","G","B">>, seeds |-> 300, peers |-> 100, source |-> <<"l","i","n","u","x">>]

Debian ==
  [title  |-> <<"D","e","b","i","a","n"," ","1","2"," ","n","e","t","i","n","s","t"," ",
               "a","m","d","6","4">>,
   magnet |-> <<"m","a","g","n","e","t",":","?","x","t","=","u","r","n",":","b","t","i",
               "h",":","d","e","b","i","a","n","-","1","2","-","n","e","t","i","n","s",
               "t","-","a","m","d","6","4","&","d","n","=","d","e","b","i","a","n","-",
               "1","2",".","0",".","0","-","a","m","d","6","4","-","n","e","t","i","n",
               "s","t",".","i","s","o","&","t","r","=","u","d","p","%","3","A","%","2",
               "F","%","2","F","t","r","a","c","k","e","r",".","o","p","e","n","t","r",
               "a","c","k","r",".","o","r","g","%","3","A","1","3","3","7","%","2","F",
               "a","n","n","o","u","n","c","e">>,
   size |-> <<"6","5","0","M","B">>, seeds |-> 200, peers |-> 50, source |-> <<"l","i","n","u","x">>]

Fedora ==
  [title  |-> <<"F","e","d","o","r","a"," ","W","o","r","k","s","t","a","t","i","o","n",
               " ","4","0"," ","x","8","6","_","6","4">>,
   magnet |-> <<"m","a","g","n","e","t",":","?","x","t","=","u","r","n",":","b","t","i",
               "h",":","f","e","d","o","r","a","-","4","0","-","w","o","r","k","s","t",
               "a","t","i","o","n","-","x","8","6","_","6","4","&","d","n","=","F","e",
               "d","o","r","a","-","W","o","r","k","s","t","a","t","i","o","n","-","L",
               "i","v","e","-","x","8","6","_","6","4","-","4","0","-","1",".","1","4",
               ".","i","s","o","&","t","r","=","u","d","p","%","3","A","%","2","F","%",
               "2","F","t","r","a","c","k","e","r",".","o","p","e","n","t","r","a","c",
               "k","r",".","o","r","g","%","3","A","1","3","3","7","%","2","F","a","n",
               "n","o","u","n","c","e">>,
   size |-> <<"2",".","2","G","B">>, seeds |-> 120, peers |-> 40, source |-> <<"l","i","n","u","x">>]

----------------------------------------------------------------------------

\* variants of the title filter that drop one of the two lower() calls
TitleMatches_query_not_lowered(items, qq) ==
  LET hit(s) == contains(lower(s.title), qq)
  IN  SelectSeq(items, hit)

TitleMatches_title_not_lowered(items, qq) ==
  LET q_lower == lower(qq)
      hit(s) == contains(s.title, q_lower)
  IN  SelectSeq(items, hit)

\* [s for s in items if q_lower in s.title.lower()]
TitleMatches(items, qq) ==
  LET q_lower == lower(qq)
      hit(s) == contains(lower(s.title), q_lower)
  IN  SelectSeq(items, hit)


\* variant of the demo provider without the `or samples` fallback
provider_demo_no_fallback(qq) ==
  LET samples == <<BigBuckBunny, Sintel, TearsOfSteel>>
  IN  IF qq = <<>> THEN samples ELSE TitleMatches(samples, qq)

provider_demo(qq) ==
  LET samples == <<BigBuckBunny, Sintel, TearsOfSteel>>
      matched == TitleMatches(samples, qq)
  IN  IF qq = <<>> THEN samples
      ELSE IF matched # <<>> THEN matched ELSE samples


\* variant of the linux provider ending in `or items`
provider_linux_or_items(qq) ==
  LET items == <<Ubuntu, Debian, Fedora>>
      matched == TitleMatches(items, qq)
  IN  IF qq = <<>> THEN items
      ELSE IF matched # <<>> THEN matched ELSE items

provider_linux(qq) ==
  LET items == <<Ubuntu, Debian, Fedora>>
      matched == TitleMatches(items, qq)
  IN  IF qq = <<>> THEN items
      ELSE IF matched # <<>> THEN matched ELSE <<>>

\* The registry: its keys in insertion order, and the lookup PROVIDERS.get(key)
PROVIDERS == <<DEMO, LINUX>>

Registered(key) == \E i \in 1..Len(PROVIDERS) : PROVIDERS[i] = key

provider(key, qq) ==
  IF key = DEMO THEN provider_demo(qq) ELSE provider_linux(qq)


\* variant whose default selection is the demo provider alone
search_selected_demo_only(src) ==
  IF src # None /\ src[1] # <<>>
  THEN LET parts == split(src[1], COMMA)
       IN  [i \in 1..Len(parts) |-> strip(parts[i])]
  ELSE <<DEMO>>

\* selected = [k.strip() for k in sources.split(',')] if sources else list(PROVIDERS.keys())
search_selected(src) ==
  IF src # None /\ src[1] # <<>>
  THEN LET parts == split(src[1], COMMA)
       IN  [i \in 1..Len(parts) |-> strip(parts[i])]
  ELSE PROVIDERS


\* variant of the provider loop that walks the registry instead of `selected`
search_results_registry_order(sel, qq, f) ==
  LET items(key) == IF (\E i \in 1..Len(sel) : sel[i] = key) /\ key \notin f
                    THEN provider(key, qq) ELSE <<>>
  IN  items(PROVIDERS[1]) \o items(PROVIDERS[2])

\* the provider loop: unknown keys and raising providers contribute nothing
RECURSIVE search_results(_, _, _)
search_results(sel, qq, f) ==
  IF sel = <<>> THEN <<>>
  ELSE LET key == Head(sel)
           items == IF ~Registered(key) THEN <<>>
                    ELSE IF key \in f THEN <<>>
                    ELSE provider(key, qq)
       IN  items \o search_results(Tail(sel), qq, f)

\* the first '&'-separated part holding 'btih', cut after its last 'btih:'
RECURSIVE first_btih(_)
first_btih(parts) ==
  IF parts = <<>> THEN None
  ELSE IF contains(Head(parts), BTIH)
       THEN LET pieces == split(Head(parts), BTIH_COLON)
            IN  Some(pieces[Len(pieces)])
       ELSE first_btih(Tail(parts))

btih_of(item) ==
  IF contains(item.magnet, MAGNET_PREFIX)
  THEN first_btih(split(item.magnet, AMP))
  ELSE None

\* key = btih or item.magnet
dedup_key(item) ==
  LET btih == btih_of(item)
  IN  IF btih # None /\ btih[1] # <<>> THEN btih[1] ELSE item.magnet

\* every item a provider can return, with its de-duplication key
ProviderItems == {BigBuckBunny, Sintel, TearsOfSteel, Ubuntu, Debian, Fedora}

dedup_keys == [item \in ProviderItems |-> dedup_key(item)]

\* the de-duplication loop
RECURSIVE dedup(_, _)
dedup(items, seen) ==
  IF items = <<>> THEN <<>>
  ELSE LET key == dedup_keys[Head(items)]
       IN  IF key \notin seen
           THEN <<Head(items)>> \o dedup(Tail(items), seen \cup {key})
           ELSE dedup(Tail(items), seen)


\* variant without de-duplication
search_unique_keep_all(res) == res

search_unique(res) == dedup(res, {})

\* if not unique: unique = provider_demo(q)
FallbackTaken(uniq) == uniq = <<>>


\* variant whose fallback asks every provider
search_fallback_all_providers(uniq, qq) ==
  IF FallbackTaken(uniq) THEN provider_demo(qq) \o provider_linux(qq) ELSE uniq

search_fallback(uniq, qq) ==
  IF FallbackTaken(uniq) THEN provider_demo(qq) ELSE uniq

\* the value search returns when no provider call raises
search_return(src, qq) ==
  search_fallback(search_unique(search_results(search_selected(src), qq, {})), qq)

----------------------------------------------------------------------------
\* Requests.  A caller builds sources by joining provider keys with ','.
QueryChars == {"e", "D"}

ProbeQueries ==
  { <<"u","b","u","n","t","u">>, <<"U","B","U","N","T","U">>,
    <<"z","z","z">>, <<"s","I","N","T","E","L">>, <<"a","m","d","6","4">>,
    <<"7","2","0","p">>, <<"f","E","d","o","r","a">>, <<"4","0">> }

Queries ==
  UNION { [1..n -> QueryChars] : n \in 0..MaxQLen } \cup ProbeQueries

SourceKeys ==
  { DEMO, LINUX, <<"D","e","m","o">>, <<" ","l","i","n","u","x"," ">>, <<>> }

KeyLists == UNION { [1..n -> SourceKeys] : n \in 1..MaxKeys }

----------------------------------------------------------------------------
TypeOK ==
  /\ pc \in {"idle", "request", "done"}
  /\ q \in Queries
  /\ sources = None \/ Len(sources) = 1
  /\ faulty \subseteq {DEMO, LINUX}
  /\ raised \in BOOLEAN

Init ==
  /\ pc = "idle"
  /\ q = <<>>
  /\ sources = None
  /\ keys = <<>>
  /\ faulty = {}
  /\ selected = <<>>
  /\ results = <<>>
  /\ unique = <<>>
  /\ response = <<>>
  /\ raised = FALSE

\* a request arrives: q defaults to "", sources to None
Arrive(faults) ==
  /\ pc = "idle"
  /\ pc' = "request"
  /\ q' \in Queries
  /\ \/ sources' = None /\ keys' = <<>>
     \/ \E ks \in KeyLists : keys' = ks /\ sources' = Some(join(COMMA, ks))
  /\ faulty' \in faults
  /\ UNCHANGED <<selected, results, unique, response, raised>>

Request == Arrive({{}})

\* a request arrives while some provider calls raise
RequestFault == Arrive(SUBSET {DEMO, LINUX})

\* GET /api/search
search ==
  /\ pc = "request"
  /\ LET sel  == search_selected(sources)
         res  == search_results(sel, q, faulty)
         uniq == search_unique(res)
     IN  /\ selected' = sel
         /\ results' = res
         /\ unique' = uniq
         /\ IF FallbackTaken(uniq) /\ DEMO \in faulty
            THEN raised' = TRUE /\ response' = <<>>
            ELSE raised' = FALSE /\ response' = search_fallback(uniq, q)
  /\ pc' = "done"
  /\ UNCHANGED <<q, sources, keys, faulty>>

\* the response is sent; the handler keeps nothing between requests
Respond ==
  /\ pc = "done"
  /\ pc' = "idle"
  /\ q' = <<>> /\ sources' = None /\ keys' = <<>> /\ faulty' = {}
  /\ selected' = <<>> /\ results' = <<>> /\ unique' = <<>>
  /\ response' = <<>> /\ raised' = FALSE

Next == Request \/ search \/ Respond

Spec == Init /\ [][Next]_vars

\* the same handler when provider calls may raise
NextFault == RequestFault \/ search \/ Respond

SpecFault == Init /\ [][NextFault]_vars

----------------------------------------------------------------------------
\* Vocabulary of the properties, stated without the handler's own helpers.

Done == pc = "done"

DemoSamples == <<BigBuckBunny, Sintel, TearsOfSteel>>

LinuxItems == <<Ubuntu, Debian, Fedora>>

SameLetter(a, b) ==
  a = b \/ \E i \in 1..26 : {a, b} = {UpperCase[i], LowerCase[i]}

\* title contains qq case-insensitively
ContainsIgnoreCase(title, qq) ==
  \E i \in 0..(Len(title) - Len(qq)) :
     \A k \in 1..Len(qq) : SameLetter(title[i + k], qq[k])

\* the members of items whose title contains qq case-insensitively, in order
Matching(items, qq) ==
  LET hit(s) == ContainsIgnoreCase(s.title, qq) IN SelectSeq(items, hit)

\* what the demo provider is specified to return for qq
DemoSet(qq) ==
  IF Matching(DemoSamples, qq) = <<>> THEN DemoSamples ELSE Matching(DemoSamples, qq)

\* key k, as written by the caller, names provider p: p with whitespace around it
Names(k, p) ==
  \E i \in 1..(Len(k) + 1) :
     /\ i + Len(p) - 1 <= Len(k)
     /\ SubSeq(k, i, i + Len(p) - 1) = p
     /\ \A j \in 1..Len(k) : (j < i \/ j > i + Len(p) - 1) => k[j] \in Whitespace

NamesSome(k) == Names(k, DEMO) \/ Names(k, LINUX)

\* the provider list the request asks for: an empty or unset sources means all
Asked == IF sources = None \/ sources = Some(<<>>) THEN <<DEMO, LINUX>> ELSE keys

AsksFor(p) == \E i \in 1..Len(Asked) : Names(Asked[i], p)

HasSource(items, p) == \E i \in 1..Len(items) : items[i].source = p

AllSource(items, p) == \A i \in 1..Len(items) : items[i].source = p

\* the btih hash of a magnet of the form magnet:?xt=urn:btih:<hash>&...
Hashes ==
  [item \in {BigBuckBunny, Sintel, TearsOfSteel, Ubuntu, Debian, Fedora} |->
     SubSeq(item.magnet, 21, find(item.magnet, AMP))]

HashOf(item) == Hashes[item]

Range(s) == {s[i] : i \in 1..Len(s)}

----------------------------------------------------------------------------
\* C1: search never returns an empty list; when the de-duplicated aggregate is
\* empty, the result is the (non-empty) output of the demo provider.
C1_NeverEmpty ==
  Done =>
    /\ response # <<>>
    /\ unique = <<>> => response = DemoSet(q)

C1_Witness ==
  Done /\ unique = <<>> /\ sources = Some(LINUX) /\ response = DemoSamples

\* C2: with sources="demo" the result holds only demo items whose title contains
\* q case-insensitively, unless no demo title matches, and then it is the three
\* demo items in their original order.
C2_DemoFilter ==
  (Done /\ sources = Some(DEMO)) =>
    IF Matching(DemoSamples, q) = <<>>
    THEN response = DemoSamples
    ELSE \A i \in 1..Len(response) :
           /\ response[i] \in Range(DemoSamples)
           /\ ContainsIgnoreCase(response[i].title, q)

C2_Witness ==
  /\ Done /\ sources = Some(DEMO)
  /\ q = <<"s","I","N","T","E","L">>
  /\ response = <<Sintel>>

\* C3 as stated: every sources value naming no registered provider, the empty
\* string included, yields the demo set (no linux item) and never an empty list.
C3_InvalidSourcesDemoSet ==
  (Done /\ sources # None /\ \A i \in 1..Len(keys) : ~NamesSome(keys[i])) =>
    /\ response # <<>>
    /\ AllSource(response, DEMO)

\* C3 amended: every NON-EMPTY sources value naming no registered provider
\* yields the demo set and never an empty list (the empty string is treated as
\* unset and selects all providers).
C3_NonEmptyInvalidSourcesDemoSet ==
  (Done /\ sources # None /\ sources # Some(<<>>)
        /\ \A i \in 1..Len(keys) : ~NamesSome(keys[i])) =>
    /\ response # <<>>
    /\ AllSource(response, DEMO)
    /\ response = DemoSet(q)

C3_Witness ==
  /\ Done /\ sources = Some(<<"D","e","m","o">>)
  /\ q = <<"4","0">>
  /\ response = DemoSamples

\* C4: the returned list holds no two items with the same btih hash, and the
\* de-duplicated list is the list of first occurrences of each hash in the
\* concatenated provider results, in order.
FirstOccurrences(items) ==
  LET first(i) == \A j \in 1..(i - 1) : HashOf(items[j]) # HashOf(items[i])
      RECURSIVE from(_)
      from(i) == IF i > Len(items) THEN <<>>
                 ELSE (IF first(i) THEN <<items[i]>> ELSE <<>>) \o from(i + 1)
  IN  from(1)

C4_NoDuplicateHash ==
  Done =>
    /\ \A i, j \in 1..Len(response) : i # j => HashOf(response[i]) # HashOf(response[j])
    /\ unique = FirstOccurrences(results)
    /\ unique # <<>> => response = unique

C4_Witness ==
  /\ Done /\ keys = <<LINUX, DEMO, LINUX>> /\ q = <<>>
  /\ Len(results) = 9 /\ Len(response) = 6

\* C5 as stated: with sources unset, every query returns at least one demo item
\* and at least one linux item.
C5_DefaultHasBothProviders ==
  (Done /\ sources = None) => HasSource(response, DEMO) /\ HasSource(response, LINUX)

\* C5 amended: with sources unset the result always holds a demo item, and it
\* holds a linux item exactly when q is empty or some linux title contains q
\* case-insensitively.
C5_DefaultHasBothWhenLinuxMatches ==
  (Done /\ sources = None) =>
    /\ HasSource(response, DEMO)
    /\ HasSource(response, LINUX) <=> Matching(LinuxItems, q) # <<>>

C5_Witness ==
  /\ Done /\ sources = None /\ q = <<"a","m","d","6","4">>
  /\ HasSource(response, DEMO)
  /\ response[Len(response) - 1] = Ubuntu /\ response[Len(response)] = Debian

\* C6: a raising provider is skipped, the other selected providers still
\* contribute, and no provider exception ever reaches the caller, also when the
\* raising provider is demo and the demo fallback is taken.
C6_NoProviderExceptionSurfaces ==
  Done =>
    /\ ~raised
    /\ \A p \in {DEMO, LINUX} :
         (AsksFor(p) /\ p \notin faulty) =>
            \A i \in 1..Len(provider(p, q)) : provider(p, q)[i] \in Range(results)

\* C7: unknown keys and whitespace around keys do not matter: when the list
\* names at least one registered provider, the result equals the result for the
\* list of the named providers alone, in content and order.
NamedOnly(ks) ==
  LET named(k) == NamesSome(k)
      only == SelectSeq(ks, named)
  IN  [i \in 1..Len(only) |-> IF Names(only[i], DEMO) THEN DEMO ELSE LINUX]

C7_UnknownKeysIgnored ==
  (Done /\ sources # None /\ \E i \in 1..Len(keys) : NamesSome(keys[i])) =>
    response = search_return(Some(join(COMMA, NamedOnly(keys))), q)

C7_Witness ==
  /\ Done /\ q = <<>>
  /\ keys = << <<"D","e","m","o">>, <<" ","l","i","n","u","x"," ">>, <<>> >>
  /\ response = LinuxItems

\* C8: with sources="linux" and a non-empty q matching some linux title, the
\* result is exactly the matching linux items in registry order; q="ubuntu"
\* returns the single Ubuntu record.
C8_LinuxFilter ==
  (Done /\ sources = Some(LINUX) /\ q # <<>> /\ Matching(LinuxItems, q) # <<>>) =>
    /\ response = Matching(LinuxItems, q)
    /\ q = <<"u","b","u","n","t","u">> => response = <<Ubuntu>>

C8_Witness ==
  /\ Done /\ sources = Some(LINUX)
  /\ q = <<"u","b","u","n","t","u">>
  /\ response = <<Ubuntu>>

\* C9: items come in provider-selection order: items of the provider asked for
\* first precede those of the provider asked for later, items of one provider
\* keep its own order, and "linux,demo" returns the items of "demo,linux".
PositionIn(items, x) == CHOOSE i \in 1..Len(items) : items[i] = x

OwnPosition(x) ==
  IF x.source = DEMO THEN PositionIn(DemoSamples, x) ELSE PositionIn(LinuxItems, x)

AskedBefore(a, b) ==
  \E i \in 1..Len(Asked) :
     /\ Names(Asked[i], a)
     /\ \A j \in 1..i : ~Names(Asked[j], b)

C9_SelectionOrder ==
  Done =>
    /\ \A i, j \in 1..Len(response) :
         i < j =>
           IF response[i].source = response[j].source
           THEN OwnPosition(response[i]) < OwnPosition(response[j])
           ELSE AskedBefore(response[i].source, response[j].source)
    /\ keys = <<LINUX, DEMO>> =>
         Range(response) = Range(search_return(Some(join(COMMA, <<DEMO, LINUX>>)), q))

C9_Witness ==
  /\ Done /\ keys = <<LINUX, DEMO>> /\ q = <<>>
  /\ response = LinuxItems \o DemoSamples

\* C10: when only the linux provider is selected and the non-empty q matches no
\* linux title, the linux provider contributes nothing and search returns the
\* demo provider's output for q: every item has source "demo".
OnlyLinuxSelected ==
  /\ sources # None /\ sources # Some(<<>>)
  /\ \E i \in 1..Len(keys) : Names(keys[i], LINUX)
  /\ \A i \in 1..Len(keys) : ~Names(keys[i], DEMO)

C10_LinuxNoMatchFallsBackToDemo ==
  (Done /\ OnlyLinuxSelected /\ q # <<>> /\ Matching(LinuxItems, q) = <<>>) =>
    /\ results = <<>>
    /\ response = DemoSet(q)
    /\ AllSource(response, DEMO)

C10_Witness ==
  /\ Done /\ sources = Some(LINUX)
  /\ q = <<"s","I","N","T","E","L">>
  /\ results = <<>>
  /\ response = <<Sintel>>

====
